---- MODULE Spec2Model ----
(***************************************************************************)
(* Model of cgp_seq_input_val/manifest.py: Manifest.validate (Header then  *)
(* Body validation of a tab separated manifest against a Rule Config) and  *)
(* Manifest.write followed by re-loading the written file.                 *)
(*                                                                         *)
(* A file is a sequence of rows, a row a sequence of cells (strings), as   *)
(* csv.reader(delimiter='\t') yields them.  A python dict is a sequence of *)
(* <<key, value>> pairs in insertion order.  validate() is run with        *)
(* checkFiles=False.                                                       *)
(***************************************************************************)
EXTENDS Integers, Sequences, FiniteSets, TLC

VARIABLES
    informat,     \* Manifest.informat: the extension of the input path
    infile,       \* the rows of the file at Manifest.infile
    cfg_doc,      \* the Rule Config document found at the config path
    header,       \* Manifest.header
    config,       \* Manifest.config
    body,         \* Manifest.body
    pc,           \* the statement of Manifest.validate that runs next
    err,          \* the exception that ended validate(), if one did
    run,          \* how many Manifest objects were made so far
    outfile,      \* the rows of the tsv file written last
    written_ref   \* the identifier the last written file is named after

vars == <<informat, infile, cfg_doc, header, config, body, pc, err, run, outfile, written_ref>>

(* ---------------------------------------------------------------- bounds *)
MaxRows == 2
MaxRuns == 2

(* ------------------------------------------------------------- constants *)
HEADER_BODY_SWITCH == "Sample"
FT == "Form type:"
FV == "Form version:"
REF == "Our Ref:"
CONTACT == "Contact:"

None == [none |-> TRUE]

NoErr == [kind |-> "none", at |-> "", check |-> "", field |-> "", names |-> {}, line |-> 0]

Err(kind, at, check, field, names, line) ==
    [kind |-> kind, at |-> at, check |-> check, field |-> field, names |-> names, line |-> line]

(* ------------------------------------------------------------ python dict *)
DictKeys(d) == {d[i][1] : i \in 1..Len(d)}

DictHas(d, k) == k \in DictKeys(d)

DictGet(d, k) == d[CHOOSE i \in 1..Len(d) : d[i][1] = k][2]

DictSet(d, k, v) ==
    IF DictHas(d, k)
    THEN [i \in 1..Len(d) |-> IF d[i][1] = k THEN <<k, v>> ELSE d[i]]
    ELSE Append(d, <<k, v>>)

Range(s) == {s[i] : i \in 1..Len(s)}

(* ------------------------------------------------------- Header.__init__ *)
RECURSIVE ParseHeaderRows(_, _, _)
ParseHeaderRows(rows, i, items) ==
    IF i > Len(rows) THEN items
    ELSE IF rows[i][1] = HEADER_BODY_SWITCH THEN items
    ELSE ParseHeaderRows(rows, i + 1,
            DictSet(items, rows[i][1], IF Len(rows[i]) > 1 THEN rows[i][2] ELSE ""))

\* The outcome of Header(infile): the new object, or the error raised.
HeaderNew(rows) ==
    LET header_items == ParseHeaderRows(rows, 1, <<>>) IN
    IF ~DictHas(header_items, FT)
    THEN [err |-> Err("KeyError", "Header.__init__", "form_key", FT, {}, 0), obj |-> None]
    ELSE IF ~DictHas(header_items, FV)
    THEN [err |-> Err("KeyError", "Header.__init__", "form_key", FV, {}, 0), obj |-> None]
    ELSE [err |-> NoErr,
          obj |-> [type |-> DictGet(header_items, FT),
                   version |-> DictGet(header_items, FV),
                   all_items |-> header_items,
                   items |-> <<>>]]

(* ----------------------------------------------------- Header.get_config *)
\* validate_json without its last test
validate_json_NoBodyTest(cfg) ==
    IF "header" \notin DOMAIN cfg
    THEN Err("ConfigError", "Header.get_config", "config_key", "header", {}, 0)
    ELSE IF "expected" \notin DOMAIN cfg.header
    THEN Err("ConfigError", "Header.get_config", "config_key", "header.expected", {}, 0)
    ELSE IF "required" \notin DOMAIN cfg.header
    THEN Err("ConfigError", "Header.get_config", "config_key", "header.required", {}, 0)
    ELSE IF "validate" \notin DOMAIN cfg.header
    THEN Err("ConfigError", "Header.get_config", "config_key", "header.validate", {}, 0)
    ELSE NoErr

\* validate_json: the first of the five keys that is absent is reported.
validate_json(cfg) ==
    IF "header" \notin DOMAIN cfg
    THEN Err("ConfigError", "Header.get_config", "config_key", "header", {}, 0)
    ELSE IF "expected" \notin DOMAIN cfg.header
    THEN Err("ConfigError", "Header.get_config", "config_key", "header.expected", {}, 0)
    ELSE IF "required" \notin DOMAIN cfg.header
    THEN Err("ConfigError", "Header.get_config", "config_key", "header.required", {}, 0)
    ELSE IF "validate" \notin DOMAIN cfg.header
    THEN Err("ConfigError", "Header.get_config", "config_key", "header.validate", {}, 0)
    ELSE IF "body" \notin DOMAIN cfg
    THEN Err("ConfigError", "Header.get_config", "config_key", "body", {}, 0)
    ELSE NoErr

\* get_config with the structure of the document tested first
get_config_StructureFirst(hdr, doc) ==
    IF validate_json(doc) # NoErr THEN validate_json(doc)
    ELSE IF doc.type # hdr.type
    THEN Err("ParsingError", "Header.get_config", "type", "type", {}, 0)
    ELSE IF doc.version # hdr.version
    THEN Err("ParsingError", "Header.get_config", "version", "version", {}, 0)
    ELSE NoErr

\* get_config of header hdr when the document found at the config path is doc.
get_config(hdr, doc) ==
    IF doc.type # hdr.type
    THEN Err("ParsingError", "Header.get_config", "type", "type", {}, 0)
    ELSE IF doc.version # hdr.version
    THEN Err("ParsingError", "Header.get_config", "version", "version", {}, 0)
    ELSE validate_json(doc)

(* ------------------------------------------------------- Header.validate *)
\* fields_exist without the test for missing fields
Header_fields_exist_NoMissing(all_items, expected) ==
    LET unexpected == DictKeys(all_items) \ Range(expected)
    IN  IF unexpected # {}
        THEN Err("ValidationError", "Header.validate", "unexpected", "", unexpected, 0)
        ELSE NoErr

Header_fields_exist(all_items, expected) ==
    LET found == DictKeys(all_items)
        expected_fields == Range(expected)
        unexpected == found \ expected_fields
        missing_fields == expected_fields \ found
    IN  IF unexpected # {}
        THEN Err("ValidationError", "Header.validate", "unexpected", "", unexpected, 0)
        ELSE IF missing_fields # {}
        THEN Err("ValidationError", "Header.validate", "missing", "", missing_fields, 0)
        ELSE NoErr

\* the approved items: every parsed item but the two reserved ones, in order
ApprovedItems(all_items) == SelectSeq(all_items, LAMBDA p : p[1] \notin {FT, FV})

Header_fields_have_values(items, required) ==
    LET stop == {i \in 1..Len(required) :
                    \/ ~DictHas(items, required[i])
                    \/ DictGet(items, required[i]) = ""}
    IN  IF stop = {} THEN NoErr
        ELSE LET i == CHOOSE j \in stop : \A k \in stop : j <= k IN
             IF ~DictHas(items, required[i])
             THEN Err("KeyError", "Header.validate", "no_value", required[i], {}, 0)
             ELSE Err("ValidationError", "Header.validate", "no_value", required[i], {}, 0)

Header_field_values_valid(items, validate) ==
    LET stop == {i \in 1..Len(validate) :
                    \/ ~DictHas(items, validate[i][1])
                    \/ DictGet(items, validate[i][1]) \notin validate[i][2]}
    IN  IF stop = {} THEN NoErr
        ELSE LET i == CHOOSE j \in stop : \A k \in stop : j <= k IN
             IF ~DictHas(items, validate[i][1])
             THEN Err("KeyError", "Header.validate", "invalid_value", validate[i][1], {}, 0)
             ELSE Err("ValidationError", "Header.validate", "invalid_value", validate[i][1], {}, 0)

\* a backfill that assigns a token whatever the value was
Backfill_Always(items, token) == DictSet(items, REF, token)

\* the identifier backfill of Header.validate; token is what uuid4 returns
Backfill(items, token) ==
    IF DictGet(items, REF) = "" THEN DictSet(items, REF, token) ELSE items

\* Header.validate(rules) on header object hdr: the error raised (or NoErr)
\* and the object as the call leaves it.
Header_validate(hdr, rules, token) ==
    LET e1 == Header_fields_exist(hdr.all_items, rules.expected)
        items1 == ApprovedItems(hdr.all_items)
        e2 == Header_fields_have_values(items1, rules.required)
        e3 == Header_field_values_valid(items1, rules.validate)
    IN  IF e1 # NoErr THEN [err |-> e1, obj |-> hdr]
        ELSE IF e2 # NoErr THEN [err |-> e2, obj |-> [hdr EXCEPT !.items = items1]]
        ELSE IF e3 # NoErr THEN [err |-> e3, obj |-> [hdr EXCEPT !.items = items1]]
        ELSE IF ~DictHas(items1, REF)
        THEN [err |-> Err("KeyError", "Header.validate", "backfill", REF, {}, 0),
              obj |-> [hdr EXCEPT !.items = items1]]
        ELSE [err |-> NoErr, obj |-> [hdr EXCEPT !.items = Backfill(items1, token)]]

(* ----------------------------------------------------------------- Body *)
\* FileMeta(headings, row, dir).attributes: each heading bound to the cell
\* of its column.
FileMeta(headings, row) ==
    [h \in Range(headings) |->
        row[CHOOSE i \in 1..Len(headings) :
                /\ headings[i] = h
                /\ \A j \in 1..Len(headings) : headings[j] = h => j <= i]]

\* a heading check that compares the names and not their order
Body_heading_check_AnyOrder(headings, cfg) ==
    IF Range(headings) # Range(cfg.ordered)
    THEN Err("ValidationError", "Body.__init__", "heading", "", Range(headings), 0)
    ELSE NoErr

Body_heading_check(headings, cfg) ==
    IF headings # cfg.ordered
    THEN Err("ValidationError", "Body.__init__", "heading", "", Range(headings), 0)
    ELSE NoErr

\* the row loop of Body.__init__; st is the object being built, loadRows the
\* local flag; the loop ends at the first heading_check that raises
RECURSIVE BodyScan(_, _, _, _, _)
BodyScan(rows, i, cfg, loadRows, st) ==
    IF i > Len(rows) THEN [err |-> NoErr, obj |-> st]
    ELSE IF rows[i][1] = HEADER_BODY_SWITCH
    THEN LET st1 == [st EXCEPT !.headings = rows[i]]
             e == Body_heading_check(st1.headings, cfg)
         IN  IF e # NoErr THEN [err |-> e, obj |-> None]
             ELSE BodyScan(rows, i + 1, cfg, TRUE, st1)
    ELSE IF ~loadRows
    THEN BodyScan(rows, i + 1, cfg, loadRows, [st EXCEPT !.offset = @ + 1])
    ELSE BodyScan(rows, i + 1, cfg, loadRows,
            [st EXCEPT !.file_detail = Append(@, FileMeta(st.headings, rows[i]))])

\* Body(infile, config): offset starts at one, headings are unset (<<>>)
\* until a sentinel row is met
BodyNew(rows, cfg) ==
    BodyScan(rows, 1, cfg, FALSE, [offset |-> 1, headings |-> <<>>, file_detail |-> <<>>])

\* the least pair of a set of pairs of naturals, first component first
LeastPair(S) ==
    CHOOSE p \in S : \A q \in S : p[1] < q[1] \/ (p[1] = q[1] /\ p[2] <= q[2])

Body_fields_have_values(b, rules) ==
    LET fd == b.file_detail
        stop == {p \in (1..Len(fd)) \X (1..Len(rules)) :
                    \/ rules[p[2]] \notin DOMAIN fd[p[1]]
                    \/ fd[p[1]][rules[p[2]]] = ""
                    \/ fd[p[1]][rules[p[2]]] = "."}
    IN  IF stop = {} THEN NoErr
        ELSE LET p == LeastPair(stop)
                 cnt == b.offset + p[1]
             IN  IF rules[p[2]] \notin DOMAIN fd[p[1]]
                 THEN Err("KeyError", "Body.validate", "required", rules[p[2]], {}, cnt)
                 ELSE Err("ValidationError", "Body.validate", "required", rules[p[2]], {}, cnt)

\* the outer loop is over the validate dict, the inner one over the records
Body_field_values_valid(b, validate) ==
    LET fd == b.file_detail
        stop == {p \in (1..Len(validate)) \X (1..Len(fd)) :
                    \/ validate[p[1]][1] \notin DOMAIN fd[p[2]]
                    \/ fd[p[2]][validate[p[1]][1]] \notin validate[p[1]][2]}
    IN  IF stop = {} THEN NoErr
        ELSE LET p == LeastPair(stop)
                 cnt == b.offset + p[2]
             IN  IF validate[p[1]][1] \notin DOMAIN fd[p[2]]
                 THEN Err("KeyError", "Body.validate", "enum", validate[p[1]][1], {}, cnt)
                 ELSE Err("ValidationError", "Body.validate", "enum", validate[p[1]][1], {}, cnt)

F_TYPES == <<"File", "File_2">>

\* the value at position <<record, f_type index>> of the body
FileAt(fd, p) == fd[p[1]][F_TYPES[p[2]]]

Before(q, p) == q[1] < p[1] \/ (q[1] = p[1] /\ q[2] < p[2])

Body_uniq_files(b) ==
    LET fd == b.file_detail
        pos == (1..Len(fd)) \X (1..Len(F_TYPES))
        stop == {p \in pos :
                    /\ FileAt(fd, p) # "."
                    /\ \E q \in pos : Before(q, p) /\ FileAt(fd, q) = FileAt(fd, p)}
    IN  IF stop = {} THEN NoErr
        ELSE LET p == LeastPair(stop) IN
             Err("ValidationError", "Body.validate", "duplicate", F_TYPES[p[2]], {},
                 b.offset + p[1])

\* os.path.splitext on the file names of the model: <<root, ext>>
splitext(item) ==
    CASE item = "a.fq"       -> <<"a", ".fq">>
      [] item = "b.fq"       -> <<"b", ".fq">>
      [] item = "b.fq.gz"    -> <<"b.fq", ".gz">>
      [] item = "c.txt"      -> <<"c", ".txt">>
      [] OTHER               -> <<item, "">>

\* ext + extra of python, the two as <<ext, extra>>: the strings differ iff
\* the pairs do, since extra is '' or '.gz' and ext is then no '.gz' suffix
\* of a longer extension
full_ext(item) ==
    LET s1 == splitext(item) IN
    IF s1[2] = ".gz"
    THEN <<splitext(s1[1])[2], ".gz">>
    ELSE <<s1[2], "">>

\* file_ext_check on one record: the error of the first f_type that raises
RowExtErr(attrs, rules, cnt) ==
    LET f1 == attrs["File"]
        f2 == attrs["File_2"]
    IN  IF f1 # "." /\ full_ext(f1) \notin rules["File"]
        THEN Err("ValidationError", "Body.validate", "ext", "File", {}, cnt)
        ELSE IF f2 # "." /\ full_ext(f2) \notin rules["File_2"]
        THEN Err("ValidationError", "Body.validate", "ext", "File_2", {}, cnt)
        ELSE IF f1 # "." /\ f2 # "." /\ full_ext(f1) # full_ext(f2)
        THEN Err("ValidationError", "Body.validate", "ext_match", "File_2", {}, cnt)
        ELSE NoErr

Body_file_ext_check(b, rules) ==
    LET fd == b.file_detail
        stop == {j \in 1..Len(fd) : RowExtErr(fd[j], rules, b.offset + j) # NoErr}
    IN  IF stop = {} THEN NoErr
        ELSE LET j == CHOOSE x \in stop : \A y \in stop : x <= y IN
             RowExtErr(fd[j], rules, b.offset + j)

\* Body.validate with the uniqueness check ahead of the enumerated values
Body_validate_UniqFirst(b, rules) ==
    LET e1 == Body_fields_have_values(b, rules.required)
        e2 == Body_field_values_valid(b, rules.validate)
        e3 == Body_uniq_files(b)
        e4 == Body_file_ext_check(b, rules.validate_ext)
    IN  IF e1 # NoErr THEN e1
        ELSE IF e3 # NoErr THEN e3
        ELSE IF e2 # NoErr THEN e2
        ELSE e4

Body_validate(b, rules) ==
    LET e1 == Body_fields_have_values(b, rules.required)
        e2 == Body_field_values_valid(b, rules.validate)
        e3 == Body_uniq_files(b)
        e4 == Body_file_ext_check(b, rules.validate_ext)
    IN  IF e1 # NoErr THEN e1
        ELSE IF e2 # NoErr THEN e2
        ELSE IF e3 # NoErr THEN e3
        ELSE e4

(* ------------------------------------------------------- Manifest.write *)
\* the rows Header.write prints: the items, then the two reserved keys
Header_write(hdr) ==
    hdr.items \o << <<FT, hdr.type>>, <<FV, hdr.version>> >>

\* the rows Body.write prints: the ordered headings, then each record's
\* values in that order
Body_write(b, cfg) ==
    LET RowOf(attrs) == [i \in 1..Len(cfg.ordered) |-> attrs[cfg.ordered[i]]]
    IN  <<cfg.ordered>> \o [j \in 1..Len(b.file_detail) |-> RowOf(b.file_detail[j])]

\* the tsv file Manifest.write leaves in outdir
Manifest_write(hdr, b, cfg) == Header_write(hdr) \o Body_write(b, cfg.body)

(* --------------------------------------------------------------- inputs *)
Tokens == {"uuid-1", "uuid-2"}

\* every sequence over S of length at most n
RECURSIVE SeqsUpTo(_, _)
SeqsUpTo(S, n) ==
    IF n = 0 THEN {<<>>}
    ELSE LET shorter == SeqsUpTo(S, n - 1) IN
         shorter \cup {Append(s, x) : s \in {t \in shorter : Len(t) = n - 1}, x \in S}

Without(f, keys) == [k \in DOMAIN f \ keys |-> f[k]]

ORDERED == <<"Sample", "File", "File_2">>

EXTS == {<<".fq", "">>, <<".fq", ".gz">>}

GoodBodyCfg ==
    [ordered |-> ORDERED,
     required |-> <<"Sample">>,
     validate |-> <<>>,
     validate_ext |-> [File |-> EXTS, File_2 |-> EXTS]]

GoodHeaderCfg ==
    [expected |-> <<FT, FV, REF, CONTACT>>,
     required |-> <<CONTACT>>,
     validate |-> << <<CONTACT, {"alice", "bob"}>> >>]

GoodCfg == [type |-> "IMPORT", version |-> "1.0", header |-> GoodHeaderCfg, body |-> GoodBodyCfg]

GoodHeaderRows == << <<FT, "IMPORT">>, <<FV, "1.0">>, <<REF>>, <<CONTACT, "alice">> >>

GoodBodyRows == << ORDERED, <<"s1", "a.fq", ".">> >>

\* a Rule Config document with some of the five checked keys left out
StripCfg(c, missing) ==
    LET h == Without(c.header, missing \cap {"expected", "required", "validate"})
        top == Without(c, (missing \cap {"header", "body"}))
    IN  IF "header" \in missing THEN top ELSE [top EXCEPT !.header = h]

CheckedKeys == {"header", "expected", "required", "validate", "body"}

\* documents whose structure, type or version is off, met by the good manifest
ConfigCases ==
    {[informat |-> "tsv", infile |-> GoodHeaderRows \o GoodBodyRows,
      cfg |-> StripCfg([GoodCfg EXCEPT !.type = t, !.version = v], m)] :
        t \in {"IMPORT", "OTHER"}, v \in {"1.0", "2.0"},
        m \in {x \in SUBSET CheckedKeys : Cardinality(x) <= 2}}

\* header rows: each of the four keys present or not, with some values
HeaderRowsSet ==
    {ft \o fv \o ref \o con :
        ft \in {<<>>, << <<FT, "IMPORT">> >>},
        fv \in {<<>>, << <<FV, "1.0">> >>},
        ref \in {<<>>, << <<REF>> >>, << <<REF, "ref-7">> >>},
        con \in {<<>>, << <<CONTACT, "">> >>, << <<CONTACT, "alice">> >>, << <<CONTACT, "carol">> >>}}

HeaderCfgs ==
    {[expected |-> e, required |-> r, validate |-> v] :
        e \in {<<FT, FV, REF, CONTACT>>, <<REF, CONTACT>>, <<FT, FV, REF>>},
        r \in {<<>>, <<CONTACT>>, <<CONTACT, REF>>, <<"Ghost:">>},
        v \in {<<>>, << <<CONTACT, {"alice", "bob"}>> >>, << <<REF, {"ref-7"}>> >>}}

HeaderCases ==
    {[informat |-> "tsv", infile |-> h \o b, cfg |-> [GoodCfg EXCEPT !.header = hc]] :
        h \in HeaderRowsSet, hc \in HeaderCfgs,
        b \in {GoodBodyRows, << ORDERED, <<"", "a.fq", "a.fq">> >>}}

\* body rows: a sample name and the two file columns
DataRows ==
    {<<s, f1, f2>> : s \in {"s1", ""},
                     f1 \in {"a.fq", "."},
                     f2 \in {"a.fq", "b.fq.gz", "c.txt", "."}}

BadHeadingRows == {<<"Sample", "File">>, <<"Sample", "File_2", "File">>}

\* lines with at most one further row that starts with the sentinel token:
\* the heading row again, after any line, or a different heading row at the end
WithSentinel(lines) ==
    {lines}
    \cup {SubSeq(lines, 1, k) \o <<ORDERED>> \o SubSeq(lines, k + 1, Len(lines)) :
            k \in 1..Len(lines)}
    \cup {Append(lines, <<"Sample", "File">>)}

\* what follows the header rows: the heading row and up to MaxRows data rows,
\* or no heading row, or a wrong one
BodyLinesSet ==
    UNION {WithSentinel(<<ORDERED>> \o rows) : rows \in SeqsUpTo(DataRows, MaxRows)}
    \cup {first \o rows : first \in {<<>>} \cup {<<h>> : h \in BadHeadingRows},
                          rows \in SeqsUpTo(DataRows, 1)}

BodyCfgs ==
    {[GoodBodyCfg EXCEPT !.required = rv[1], !.validate = rv[2]] :
        rv \in {<< <<"Sample">>, <<>> >>,
                << <<"Sample", "File">>, << <<"File_2", {"a.fq", "b.fq.gz", "."}>> >> >>}}

BodyCases ==
    {[informat |-> "tsv", infile |-> GoodHeaderRows \o b, cfg |-> [GoodCfg EXCEPT !.body = bc]] :
        b \in BodyLinesSet, bc \in BodyCfgs}

\* a Rule Config whose ordered list leaves the sentinel token out
OrderedCases ==
    {[informat |-> "tsv", infile |-> GoodHeaderRows \o <<h>> \o rows,
      cfg |-> [GoodCfg EXCEPT !.body.ordered = <<"File", "File_2">>]] :
        h \in {ORDERED} \cup BadHeadingRows, rows \in SeqsUpTo(DataRows, 1)}

FormatCases ==
    {[informat |-> f, infile |-> GoodHeaderRows \o GoodBodyRows, cfg |-> GoodCfg] :
        f \in {"tsv", "xls", "csv"}}

Inputs == ConfigCases \cup HeaderCases \cup BodyCases \cup OrderedCases \cup FormatCases

(* -------------------------------------------------------------- actions *)
Init ==
    \E inp \in Inputs :
        /\ informat = inp.informat
        /\ infile = inp.infile
        /\ cfg_doc = inp.cfg
        /\ header = None
        /\ config = None
        /\ body = None
        /\ pc = "validate"
        /\ err = NoErr
        /\ run = 1
        /\ outfile = <<>>
        /\ written_ref = ""

Raise(e) == pc' = "raised" /\ err' = e

\* Manifest.validate, the format test
ValidateBegin ==
    /\ pc = "validate"
    /\ IF informat # "tsv"
       THEN Raise(Err("ValueError", "Manifest.validate", "informat", "", {}, 0))
       ELSE pc' = "new_header" /\ err' = err
    /\ UNCHANGED <<informat, infile, cfg_doc, header, config, body, run, outfile, written_ref>>

\* self.header = Header(self.infile)
NewHeader ==
    /\ pc = "new_header"
    /\ LET r == HeaderNew(infile) IN
       IF r.err # NoErr
       THEN Raise(r.err) /\ header' = header
       ELSE pc' = "get_config" /\ err' = err /\ header' = r.obj
    /\ UNCHANGED <<informat, infile, cfg_doc, config, body, run, outfile, written_ref>>

\* self.config = self.header.get_config()
GetConfig ==
    /\ pc = "get_config"
    /\ LET e == get_config(header, cfg_doc) IN
       IF e # NoErr
       THEN Raise(e) /\ config' = config
       ELSE pc' = "header_validate" /\ err' = err /\ config' = cfg_doc
    /\ UNCHANGED <<informat, infile, cfg_doc, header, body, run, outfile, written_ref>>

\* header validation whose failure does not end validate()
HeaderValidate_Swallow ==
    /\ pc = "header_validate"
    /\ \E token \in Tokens :
        header' = Header_validate(header, config.header, token).obj
    /\ pc' = "new_body"
    /\ UNCHANGED <<informat, infile, cfg_doc, config, body, err, run, outfile, written_ref>>

\* self.header.validate(self.config['header'])
HeaderValidate ==
    /\ pc = "header_validate"
    /\ \E token \in Tokens :
        LET r == Header_validate(header, config.header, token) IN
        /\ header' = r.obj
        /\ IF r.err # NoErr THEN Raise(r.err) ELSE pc' = "new_body" /\ err' = err
    /\ UNCHANGED <<informat, infile, cfg_doc, config, body, run, outfile, written_ref>>

\* self.body = Body(self.infile, self.config['body'])
NewBody ==
    /\ pc = "new_body"
    /\ LET r == BodyNew(infile, config.body) IN
       IF r.err # NoErr
       THEN Raise(r.err) /\ body' = body
       ELSE pc' = "body_validate" /\ err' = err /\ body' = r.obj
    /\ UNCHANGED <<informat, infile, cfg_doc, header, config, run, outfile, written_ref>>

\* self.body.validate(self.config['body'])
BodyValidate ==
    /\ pc = "body_validate"
    /\ LET e == Body_validate(body, config.body) IN
       IF e # NoErr THEN Raise(e) ELSE pc' = "done" /\ err' = err
    /\ UNCHANGED <<informat, infile, cfg_doc, header, config, body, run, outfile, written_ref>>

\* Manifest.write(outdir) after a validate() that returned
Write ==
    /\ pc = "done"
    /\ run < MaxRuns
    /\ outfile' = Manifest_write(header, body, config)
    /\ written_ref' = DictGet(header.items, REF)
    /\ pc' = "written"
    /\ UNCHANGED <<informat, infile, cfg_doc, header, config, body, err, run>>

\* Manifest(tsv_file) on the file just written, to be validated again
Reload ==
    /\ pc = "written"
    /\ infile' = outfile
    /\ informat' = "tsv"
    /\ header' = None
    /\ config' = None
    /\ body' = None
    /\ pc' = "validate"
    /\ run' = run + 1
    /\ UNCHANGED <<cfg_doc, err, outfile, written_ref>>

Next ==
    \/ ValidateBegin
    \/ NewHeader
    \/ GetConfig
    \/ HeaderValidate
    \/ NewBody
    \/ BodyValidate
    \/ Write
    \/ Reload

Spec == Init /\ [][Next]_vars

TypeOK ==
    /\ pc \in {"validate", "new_header", "get_config", "header_validate", "new_body",
               "body_validate", "done", "written", "raised"}
    /\ run \in 1..MaxRuns
    /\ (pc = "raised") = (err # NoErr)

(* ------------------------------------------------ where validate() stands *)
RanNewHeader == pc \notin {"validate", "new_header", "written"} /\ err.at # "Manifest.validate"

RanGetConfig == header # None /\ pc # "get_config"

RanHeaderValidate == config # None /\ pc # "header_validate"

HeaderValidateReturned == RanHeaderValidate /\ err.at # "Header.validate"

RanNewBody == HeaderValidateReturned /\ pc # "new_body"

RanBodyValidate == body # None /\ pc # "body_validate"

HeaderChecksPass(hdr, rules) ==
    /\ DictKeys(hdr.all_items) = Range(rules.expected)
    /\ \A i \in 1..Len(rules.required) :
          /\ DictHas(hdr.items, rules.required[i])
          /\ DictGet(hdr.items, rules.required[i]) # ""
    /\ \A i \in 1..Len(rules.validate) :
          /\ DictHas(hdr.items, rules.validate[i][1])
          /\ DictGet(hdr.items, rules.validate[i][1]) \in rules.validate[i][2]
    /\ DictHas(hdr.items, REF)

(* ------------------------------------------------------------------- C1 *)
\* C1: header validation runs before body validation, and the body is never
\* touched when the header fails: a Body exists only when the Header was
\* built, the config loaded and every header check passed, and when Header
\* construction, get_config or Header.validate raised, Manifest.body is None.
C1_HeaderBeforeBody ==
    /\ body # None =>
          /\ header # None
          /\ config # None
          /\ HeaderChecksPass(header, config.header)
    /\ (pc = "raised" /\ err.at \in {"Manifest.validate", "Header.__init__",
                                      "Header.get_config", "Header.validate"})
          => body = None
    /\ (pc = "raised" /\ err.at \in {"Body.__init__", "Body.validate"})
          => HeaderChecksPass(header, config.header)

\* a header check failed on a manifest that has body rows, and no Body exists
C1_Witness ==
    /\ pc = "raised"
    /\ err.at = "Header.validate"
    /\ body = None
    /\ \E i \in 1..Len(infile) : infile[i] = ORDERED

(* ------------------------------------------------------------------- C2 *)
\* the checked keys a document lacks, by their dotted names
MissingKeys(doc) ==
    {k \in {"header", "body"} : k \notin DOMAIN doc}
    \cup {"header." \o k : k \in {x \in {"expected", "required", "validate"} :
                                    "header" \notin DOMAIN doc \/ x \notin DOMAIN doc.header}}

C3_MismatchIsParsingError ==
    (RanGetConfig /\ (cfg_doc.type # header.type \/ cfg_doc.version # header.version)) =>
        /\ pc = "raised"
        /\ err.kind = "ParsingError"
        /\ err.at = "Header.get_config"
        /\ config = None

\* a version mismatch on a document that also lacks header
C3_Witness ==
    /\ pc = "raised"
    /\ err.kind = "ParsingError"
    /\ cfg_doc.type = header.type
    /\ cfg_doc.version # header.version
    /\ "header" \notin DOMAIN cfg_doc

(* ------------------------------------------------------------------- C4 *)
\* C4 (as claimed): when the parsed header rows lack Form type: or Form
\* version:, the run ends in a Parsing error. The code looks both keys up
\* in a dict and ends in a KeyError.
C4_MissingFormKeyIsParsingError ==
    LET keys == DictKeys(ParseHeaderRows(infile, 1, <<>>)) IN
    (RanNewHeader /\ (FT \notin keys \/ FV \notin keys)) =>
        pc = "raised" /\ err.kind = "ParsingError"

(* ------------------------------------------------------------------- C5 *)
\* C5 (as claimed): a config get_config returned has header.validate keys
\* within header.required and header.required within header.expected, so
\* no header check runs against a config that breaks either inclusion.
\* validate_json tests only that the five keys exist.
C5_LoadedConfigInclusions ==
    config # None =>
        /\ \A i \in 1..Len(config.header.validate) :
              config.header.validate[i][1] \in Range(config.header.required)
        /\ Range(config.header.required) \subseteq Range(config.header.expected)

(* ------------------------------------------------------------------- C6 *)
FieldsExistPassed ==
    ~(pc = "raised" /\ err.at = "Header.validate" /\ err.check \in {"unexpected", "missing"})

\* C6 (as claimed): fields_exist succeeds exactly when the parsed keys with
\* Form type: and Form version: removed equal the set header.expected.
C6_FieldsExistWithoutReserved ==
    RanHeaderValidate =>
        (FieldsExistPassed <=>
            DictKeys(header.all_items) \ {FT, FV} = Range(config.header.expected))

\* C6 (amended): fields_exist succeeds exactly when the set of all parsed
\* header keys, Form type: and Form version: included, equals the set
\* header.expected; otherwise it raises a Validation error that lists every
\* key present but not expected or, when there is none, every key expected
\* but not present. The two reserved keys are left out only of the items
\* it approves.
C6_FieldsExistAllKeys ==
    RanHeaderValidate =>
        LET found == DictKeys(header.all_items)
            exp == Range(config.header.expected)
        IN  /\ FieldsExistPassed <=> found = exp
            /\ ~FieldsExistPassed =>
                  /\ err.kind = "ValidationError"
                  /\ err.names = (IF found \ exp # {} THEN found \ exp ELSE exp \ found)
                  /\ header.items = <<>>
            /\ FieldsExistPassed =>
                  /\ DictKeys(header.items) = found \ {FT, FV}
                  /\ \A k \in found \ {FT, FV} :
                        k # REF => DictGet(header.items, k) = DictGet(header.all_items, k)

\* fields_exist passed on a header that holds the two reserved keys, which
\* the expected list names too
C6_Witness ==
    /\ pc = "new_body"
    /\ {FT, FV} \subseteq Range(config.header.expected)
    /\ DictKeys(header.all_items) = Range(config.header.expected)
    /\ DictKeys(header.items) = {REF, CONTACT}

(* ------------------------------------------------------------------- C7 *)
\* C7: after Header.validate returned, Our Ref: is not empty; it holds a
\* fresh token only if it was empty on input, an input value that was not
\* empty is kept; when Header.validate raised, no token was assigned; and
\* validating the file Manifest.write wrote keeps the identifier the file
\* was written with.
C7_IdentifierBackfill ==
    /\ HeaderValidateReturned =>
          LET given == DictGet(header.all_items, REF)
              got == DictGet(header.items, REF)
          IN  /\ got # ""
              /\ given # "" => got = given
              /\ given = "" => got \in Tokens
              /\ HeaderChecksPass(header, config.header)
              /\ run > 1 => got = written_ref /\ given = written_ref
    /\ (RanHeaderValidate /\ ~HeaderValidateReturned /\ DictHas(header.items, REF)) =>
          DictGet(header.items, REF) = DictGet(header.all_items, REF)

\* the written file was validated again and kept the token of the first run
C7_Witness ==
    /\ run = 2
    /\ pc = "done"
    /\ written_ref \in Tokens
    /\ DictGet(header.items, REF) = written_ref

(* ------------------------------------------------------------------- C8 *)
SentinelRows(rows) == {rows[i] : i \in {j \in 1..Len(rows) : rows[j][1] = HEADER_BODY_SWITCH}}

\* C8 (as claimed): the heading names are the sentinel row's columns after
\* the sentinel token, and heading_check passes iff they equal body.ordered.
C8_HeadingsAfterSentinel ==
    (RanNewBody /\ SentinelRows(infile) # {}) =>
        /\ body # None => (\E r \in SentinelRows(infile) : body.headings = Tail(r))
        /\ body # None <=> (\A r \in SentinelRows(infile) : Tail(r) = config.body.ordered)

\* C8 (amended): the heading names are all the columns of the sentinel row,
\* the sentinel token included as the first name, and heading_check raises
\* a Validation error unless that sequence equals body.ordered exactly (same
\* names, same order, same length), e.g. headings [Sample, File] against
\* ordered [Sample, File, File_2] fail.
C8_HeadingsAreSentinelRow ==
    RanNewBody =>
        IF \A r \in SentinelRows(infile) : r = config.body.ordered
        THEN /\ body # None
             /\ SentinelRows(infile) # {} => body.headings = config.body.ordered
             /\ SentinelRows(infile) = {} => body.headings = <<>>
        ELSE /\ body = None
             /\ pc = "raised"
             /\ err.kind = "ValidationError"
             /\ err.check = "heading"
             /\ \E r \in SentinelRows(infile) :
                   r # config.body.ordered /\ err.names = Range(r)

\* the same names in another order were refused
C8_Witness ==
    /\ pc = "raised"
    /\ err.check = "heading"
    /\ err.names = Range(config.body.ordered)

(* ------------------------------------------------------------ C9 and C10 *)
\* the 1-based positions in the file of the rows that are body records: the
\* rows after the first sentinel row that do not start with the token
DataLines(rows) ==
    {i \in 1..Len(rows) :
        /\ rows[i][1] # HEADER_BODY_SWITCH
        /\ \E j \in 1..(i - 1) : rows[j][1] = HEADER_BODY_SWITCH}

\* the column of a heading name
ColOf(name) == CHOOSE c \in 1..Len(config.body.ordered) : config.body.ordered[c] = name

\* C9 (as claimed): Body.fields_have_values raises a Validation error iff a
\* record has a required column that is empty or '.', and the line of the
\* error is the 1-based position in the input file of a row whose column
\* named in the error is empty or '.'. The code counts from the number of
\* rows before the first sentinel row, so a record after a second sentinel
\* row is reported one line early.
C9_RequiredValueLine ==
    RanBodyValidate =>
        LET bad == {i \in DataLines(infile) :
                      \E k \in 1..Len(config.body.required) :
                          infile[i][ColOf(config.body.required[k])] \in {"", "."}}
        IN  /\ (pc = "raised" /\ err.check = "required") <=> bad # {}
            /\ bad # {} =>
                  /\ err.kind = "ValidationError"
                  /\ err.line \in DataLines(infile)
                  /\ infile[err.line][ColOf(err.field)] \in {"", "."}

\* C10 (as claimed): once the required and the enumerated values passed,
\* Body.uniq_files raises a Validation error iff a value other than '.'
\* occurs twice among the File and File_2 cells of the body, and the line of
\* the error is the position in the input file of a row that holds a second
\* occurrence. The line is computed as for C9 and is one early after a
\* second sentinel row.
C10_DuplicateFileLine ==
    (RanBodyValidate /\ err.check \notin {"required", "enum"}) =>
        LET pos == DataLines(infile) \X {ColOf("File"), ColOf("File_2")}
            second == {p \in pos :
                         /\ infile[p[1]][p[2]] # "."
                         /\ \E q \in pos : /\ Before(q, p)
                                           /\ infile[q[1]][q[2]] = infile[p[1]][p[2]]}
        IN  /\ (pc = "raised" /\ err.check = "duplicate") <=> second # {}
            /\ second # {} =>
                  /\ err.kind = "ValidationError"
                  /\ \E p \in second : p[1] = err.line

(* ------------------------------------------------------------------ C11 *)
\* C11 (as claimed, for the rows file_ext_check gets to): once the required
\* values, the enumerated values and the uniqueness passed, a body row whose
\* File and File_2 are both present with different extensions makes
\* validation fail, and when every extension of the body is permitted the
\* failure is the 'must match' error citing the line of such a row in the
\* input file. The line is computed as for C9 and is one early after a
\* second sentinel row.
C11_PairedExtensionLine ==
    (RanBodyValidate /\ err.check \notin {"required", "enum", "duplicate"}) =>
        LET f1(i) == infile[i][ColOf("File")]
            f2(i) == infile[i][ColOf("File_2")]
            rules == config.body.validate_ext
            mismatched == {i \in DataLines(infile) :
                             /\ f1(i) # "."
                             /\ f2(i) # "."
                             /\ full_ext(f1(i)) # full_ext(f2(i))}
            invalid == {i \in DataLines(infile) :
                          \/ f1(i) # "." /\ full_ext(f1(i)) \notin rules["File"]
                          \/ f2(i) # "." /\ full_ext(f2(i)) \notin rules["File_2"]}
        IN  /\ mismatched # {} =>
                  /\ pc = "raised"
                  /\ err.kind = "ValidationError"
                  /\ err.check \in {"ext", "ext_match"}
            /\ (mismatched # {} /\ invalid = {}) =>
                  /\ err.check = "ext_match"
                  /\ err.line \in mismatched

(* ------------------------------------------------------------------ C12 *)
\* the kinds of rule the records of a body break, each judged over all
\* records
BrokenKinds(b, rules) ==
    LET fd == b.file_detail
        recs == 1..Len(fd)
    IN  {k \in {"required", "enum", "duplicate", "extension"} :
           \/ /\ k = "required"
              /\ \E j \in recs, r \in 1..Len(rules.required) :
                    fd[j][rules.required[r]] \in {"", "."}
           \/ /\ k = "enum"
              /\ \E j \in recs, v \in 1..Len(rules.validate) :
                    fd[j][rules.validate[v][1]] \notin rules.validate[v][2]
           \/ /\ k = "duplicate"
              /\ \E p \in recs \X {"File", "File_2"}, q \in recs \X {"File", "File_2"} :
                    /\ p # q
                    /\ fd[p[1]][p[2]] # "."
                    /\ fd[p[1]][p[2]] = fd[q[1]][q[2]]
           \/ /\ k = "extension"
              /\ \E j \in recs :
                    \/ \E f \in {"File", "File_2"} :
                          fd[j][f] # "." /\ full_ext(fd[j][f]) \notin rules.validate_ext[f]
                    \/ /\ fd[j]["File"] # "."
                       /\ fd[j]["File_2"] # "."
                       /\ full_ext(fd[j]["File"]) # full_ext(fd[j]["File_2"])}

\* the kind of rule an error of Body.validate is about
KindOf(e) == IF e.check \in {"ext", "ext_match"} THEN "extension" ELSE e.check

KindOrder == <<"required", "enum", "duplicate", "extension">>

\* C12: Body.validate runs required-values, enumerated-values, uniqueness,
\* extension in that order, each over all records: the error it raises is of
\* the earliest kind in that order that any record breaks, whatever rows the
\* violations are on, and it returns only when no kind is broken.
C12_BodyCheckOrder ==
    RanBodyValidate =>
        LET broken == BrokenKinds(body, config.body) IN
        IF broken = {}
        THEN pc # "raised"
        ELSE /\ pc = "raised"
             /\ err.at = "Body.validate"
             /\ err.kind = "ValidationError"
             /\ KindOf(err) \in broken
             /\ \A i \in 1..Len(KindOrder) :
                   KindOrder[i] = KindOf(err) =>
                      \A j \in 1..(i - 1) : KindOrder[j] \notin broken

\* the first record breaks only the extension rule, the second one a
\* required value: the error is about the required value of the second
C12_Witness ==
    /\ pc = "raised"
    /\ err.check = "required"
    /\ Len(body.file_detail) = 2
    /\ err.line = body.offset + 2
    /\ RowExtErr(body.file_detail[1], config.body.validate_ext, 0) # NoErr
    /\ \A r \in 1..Len(config.body.required) :
          body.file_detail[1][config.body.required[r]] \notin {"", "."}

(* ------------------------------------------------------------------ C13 *)
\* C13 (as claimed): when validate() returned, the input held a sentinel
\* row, heading_check passed on every sentinel row and the Body's headings
\* equal body.ordered. Body.__init__ calls heading_check only on a row that
\* starts with the sentinel token, so a file without one validates with the
\* headings never set.
C13_ValidatedImpliesHeadingChecked ==
    pc = "done" =>
        /\ SentinelRows(infile) # {}
        /\ \A r \in SentinelRows(infile) : r = config.body.ordered
        /\ body.headings = config.body.ordered

====
